---- MODULE Spec2Model ----
(***************************************************************************)
(* The line editor of rust-cli-demo: the byte-driven loop of main()        *)
(* (src/src/main.rs) and of Repl::get_line (src/src/repl.rs), with the     *)
(* terminal session of src/src/term_manager.rs.                            *)
(*                                                                         *)
(* One step of the model is one iteration of the loop: one read of the     *)
(* input and the whole match arm that handles the byte, its terminal       *)
(* output included.  The line holds only single-byte characters (the       *)
(* insert arm accepts a byte only when it is valid UTF-8 on its own), so   *)
(* a String is a sequence of bytes and byte offsets are computed from the  *)
(* character widths, all 1.                                                *)
(***************************************************************************)
EXTENDS Integers, Sequences, FiniteSets, TLC

\* ---------------------------------------------------------------- bytes
ESC == 27
ETX == 3
LF == 10
CR == 13
BS == 8
DEL == 127
TAB == 9
NUL == 0
LBRACKET == 91
KEY_A == 65
KEY_B == 66
KEY_C == 67
KEY_D == 68
CH_q == 113

\* ---------------------------------------------------------------- bounds
\* The run is cut when the editor holds this many items: characters of the
\* line, history entries and their characters, and unrecognized bytes kept
\* in the escape accumulator.
MaxStored == 3

\* ---------------------------------------------------------------- input
\* The bytes the input delivers: every byte the matches name, and samples of
\* the bytes that fall to their catch-all arms.
Letters == {97, 98}         \* 'a', 'b'
HighBytes == {195, 169}     \* the two bytes of U+00E9 in UTF-8
Unrecognized == {90}        \* 'Z', the tail of no recognized sequence

NormalBytes == {ESC, ETX, CH_q, LF, CR, BS, DEL, TAB} \cup Letters \cup HighBytes
EscapeBytes == {LBRACKET, ETX} \cup Letters
BracketBytes == {KEY_A, KEY_B, KEY_C, KEY_D, ETX} \cup Unrecognized

\* How the output calls of an arm end: all succeed, a tmanager.write fails,
\* a flush fails, or a println! or print! cannot write to stdout and panics.
IoOutcomes == {"ok", "write_err", "flush_err", "print_err"}

VARIABLES
    program,        \* "main": fn main; "repl": Repl::new then Repl::get_line
    pc,             \* "start", "ready" (Repl::new returned), "loop", "exited"
                    \* (main or get_line returned), "dropped"
    result,         \* the value returned: "none" while running
    cause,          \* why the loop was left: "none" while running
    term,           \* the terminal: raw mode on, times init_termios returned Ok,
                    \* times the destructor of the TermManager ran
    line,           \* the line under edit
    cursor_pos,     \* character index into line
    lines,          \* history
    lines_pos,      \* browsing index into lines
    input_state,    \* decoder state
    escape_buffer,  \* bytes of the escape sequence so far
    last_read,      \* outcome of the last read: "none", "byte", "eof"
    action,         \* the edit action the last byte produced
    line_end,       \* Repl.line_end: "Func" (a predicate was given) or "None"
    processed,      \* the texts process_line was called with, in order
    out,            \* the output calls of the last iteration, in order
    unflushed,      \* output was produced and no flush has been called since
    buffered        \* text waits in the buffer of stdout: it was put there and no
                    \* flush or println! has written it out since

vars == <<program, pc, result, cause, term, line, cursor_pos, lines, lines_pos,
          input_state, escape_buffer, last_read, action, line_end, processed, out,
          unflushed, buffered>>

\* The two functions a Repl is built with.
hooks == <<line_end, processed>>

edit == <<line, cursor_pos, lines, lines_pos>>

\* ---------------------------------------------------------------- strings
Min(a, b) == IF a < b THEN a ELSE b

\* str::from_utf8(&[c]).ok(): one byte alone is valid UTF-8 iff it is ASCII.
FromUtf8 == [c \in 0..255 |-> c < 128]

\* char::is_ascii_graphic: U+0021 '!' ..= U+007E '~'.
IsAsciiGraphic(c) == c >= 33 /\ c <= 126

\* char::is_whitespace on an ASCII char: U+0009..U+000D and U+0020.
IsWhitespace(c) == (c >= 9 /\ c <= 13) \/ c = 32

\* The test of the insert arm.
IsInsertable(c) ==
    /\ FromUtf8[c]
    /\ (IsAsciiGraphic(c) \/ (IsWhitespace(c) /\ c # TAB))

\* line.chars().count()
CharCount(s) == Len(s)

\* line.char_indices(): the byte offset of every character.
CharIndices(s) == [i \in 1..Len(s) |-> i - 1]

\* Iterator::take(n)
Take(s, n) == SubSeq(s, 1, Min(n, Len(s)))

\* String::insert(idx, ch): idx is a byte offset, 0 <= idx <= len.
StrInsert(s, idx, ch) == SubSeq(s, 1, idx) \o <<ch>> \o SubSeq(s, idx + 1, Len(s))

\* String::remove(idx): idx is a byte offset, idx < len (it panics otherwise).
StrRemove(s, idx) == SubSeq(s, 1, idx) \o SubSeq(s, idx + 2, Len(s))

\* The loop of the insert arm: byte_idx is the offset of the last of the
\* first cursor_pos characters, 0 when there is none.
InsertByteIdx(s, p) ==
    LET t == Take(CharIndices(s), p)
    IN  IF t = <<>> THEN 0 ELSE t[Len(t)]

\* The loop of the backspace arm: the offset of character cursor_pos - 1,
\* 0 when the line has no such character.
RemoveByteIdx(s, p) ==
    IF p - 1 < Len(s) THEN CharIndices(s)[p] ELSE 0

\* The line after the insert arm ran on character c with the cursor at p:
\* a push at the end of the line, an insert at byte_idx elsewhere.
InsertedLine(s, p, c) ==
    IF p = CharCount(s) THEN Append(s, c) ELSE StrInsert(s, InsertByteIdx(s, p), c)

\* The line after the backspace arm ran with the cursor at p > 0.
RemovedLine(s, p) == StrRemove(s, RemoveByteIdx(s, p))

\* ---------------------------------------------------------------- terminal
\* A call of tcsetattr takes effect or fails; its result is looked at
\* neither by init_termios nor by the destructor.
Tcsetattr == BOOLEAN

\* init_termios after tcgetattr succeeded: tcsetattr with ICANON and ECHO
\* cleared, then Ok(termios) whether the attributes were applied or not.
TermInit(t, applied) ==
    [t EXCEPT !.raw = IF applied THEN TRUE ELSE @, !.acquired = @ + 1]

\* Drop for TermManager: tcsetattr with the saved attributes, which leaves
\* the terminal as it is when it fails.
TermDrop(t, applied) ==
    [t EXCEPT !.raw = IF applied THEN FALSE ELSE @, !.restored = @ + 1]

\* ---------------------------------------------------------------- state
RECURSIVE TotalChars(_)
TotalChars(h) == IF h = <<>> THEN 0 ELSE Len(h[1]) + TotalChars(Tail(h))

\* What the editor holds; the accumulator's '[' is not counted, so that an
\* arrow key can always be sent. A cursor_pos left beyond the end of the
\* line counts for what it exceeds the line by.
Stored ==
    Len(line) + Len(lines) + TotalChars(lines)
        + (IF Len(escape_buffer) > 1 THEN Len(escape_buffer) - 1 ELSE 0)
        + (IF cursor_pos > Len(line) THEN cursor_pos - Len(line) ELSE 0)

\* The bytes the input may deliver in the current decoder state.
InputBytes ==
    CASE input_state = "Normal" -> NormalBytes
      [] input_state = "Escape" -> EscapeBytes
      [] input_state = "BracketedEscape" -> BracketBytes

\* Does handling byte c make the editor hold more ?
Grows(c) ==
    CASE input_state = "Normal" -> c \in {LF, CR} \/ (c \notin {ESC, CH_q, ETX, BS, DEL} /\ IsInsertable(c))
      [] input_state = "Escape" -> FALSE
      [] input_state = "BracketedEscape" -> c \notin {KEY_A, KEY_B, KEY_C, KEY_D}

\* tmanager.read(&mut buf) returning Ok(n): n = 1 with a byte in buf[0], or
\* n = 0 at end of input, buf[0] still the 0 it was initialised with.
Reads ==
    {r \in ({"byte"} \X InputBytes) \cup {<<"eof", NUL>>} : Grows(r[2]) => Stored < MaxStored}

\* How the output calls of the arm may end: a call may fail while the editor
\* holds less than the bound.
Outcomes == {io \in IoOutcomes : io # "ok" => Stored < MaxStored}

Init ==
    /\ program \in {"main", "repl"}
    /\ pc = "start"
    /\ result = "none"
    /\ cause = "none"
    /\ term = [raw |-> FALSE, acquired |-> 0, restored |-> 0]
    /\ line = <<>>
    /\ cursor_pos = 0
    /\ lines = <<>>
    /\ lines_pos = 0
    /\ input_state = "Normal"
    /\ escape_buffer = <<>>
    /\ last_read = "none"
    /\ action = "None"
    /\ line_end \in (IF program = "repl" THEN {"None", "Func"} ELSE {"None"})
    /\ processed = <<>>
    /\ out = <<>>
    /\ unflushed = FALSE
    /\ buffered = FALSE

\* ---------------------------------------------------------------- output
\* const PROMPT: &str = "> " (the Repl is given its prompt by the caller).
Prompt == <<62, 32>>

\* What a formatted string is made of: text, and the control sequences
\* "\r", "\n", ESC[K, ESC[<n>D and ESC[<n>C.
Text(s) == [t |-> "text", s |-> s, n |-> 0]
CarriageReturn == [t |-> "cr", s |-> <<>>, n |-> 0]
NewLine == [t |-> "nl", s |-> <<>>, n |-> 0]
EraseToEol == [t |-> "erase", s |-> <<>>, n |-> 0]
CursorBack(n) == [t |-> "left", s |-> <<>>, n |-> n]
CursorForward(n) == [t |-> "right", s |-> <<>>, n |-> n]

\* print!/println! into the buffered stdout, tmanager.write, and the flush
\* of either.
PrintCall(toks) == [kind |-> "print", toks |-> toks]
PrintLineCall(toks) == [kind |-> "println", toks |-> toks]
WriteCall(toks) == [kind |-> "write", toks |-> toks]
FlushCall == [kind |-> "flush", toks |-> <<>>]

\* s.chars().skip(n).count()
SkipCount(s, n) == IF CharCount(s) > n THEN CharCount(s) - n ELSE 0

\* The recalled line l is drawn over the old one: "\r{PROMPT}{line}\x1b[K".
RedrawCalls(l) ==
    <<PrintCall(<<CarriageReturn, Text(Prompt \o l), EraseToEol>>), FlushCall>>

\* "\x1b[1C", then flush.
CursorRightCalls == <<WriteCall(<<CursorForward(1)>>), FlushCall>>

\* "\x1b[1D", then flush.
CursorLeftCalls == <<WriteCall(<<CursorBack(1)>>), FlushCall>>

\* println!("\r\n{}", line), print!("{}", PROMPT), flush.
CommitCalls(l) ==
    <<PrintLineCall(<<CarriageReturn, NewLine, Text(l), NewLine>>),
      PrintCall(<<Text(Prompt)>>),
      FlushCall>>

\* Backward deletion, l and p the line and the cursor after the removal at
\* byte offset idx: one column left, the rest of the line and an erase, the
\* cursor back over that rest when there is one, flush.
DeleteCalls(l, p, idx) ==
    LET chars_after_cursor == SkipCount(l, p)
    IN  <<WriteCall(<<CursorBack(1)>>),
          WriteCall(<<Text(SubSeq(l, idx + 1, Len(l))), EraseToEol>>)>>
        \o (IF chars_after_cursor > 0
            THEN <<WriteCall(<<CursorBack(chars_after_cursor)>>)>>
            ELSE <<>>)
        \o <<FlushCall>>

\* Insertion of c into line s at cursor p. At the end of the line the
\* character is printed; elsewhere the cursor goes p columns left, the whole
\* new line is written with an erase, and the cursor goes back over what
\* follows the new character; then flush.
InsertCalls(s, p, c) ==
    IF p = CharCount(s)
    THEN <<PrintCall(<<Text(<<c>>)>>), FlushCall>>
    ELSE LET new == InsertedLine(s, p, c)
             chars_after_new_cursor == SkipCount(new, p + 1)
         IN  <<WriteCall(<<CursorBack(p)>>),
               WriteCall(<<Text(new), EraseToEol>>)>>
             \o (IF chars_after_new_cursor > 0
                 THEN <<WriteCall(<<CursorBack(chars_after_new_cursor)>>)>>
                 ELSE <<>>)
             \o <<FlushCall>>

\* The kinds of call that fail in outcome io.
FailingKind(io) ==
    CASE io = "write_err" -> {"write"}
      [] io = "flush_err" -> {"flush"}
      [] io = "print_err" -> {"println", "print"}
      [] OTHER -> {}

\* Does text wait in the buffer of stdout after the calls done, when it did
\* (before) or did not before them ? A flush and a println! write the
\* buffer out; a print! and a tmanager.write put text into it.
RECURSIVE Buffered(_, _)
Buffered(before, done) ==
    IF done = <<>> THEN before
    ELSE Buffered(Head(done).kind \notin {"flush", "println"}, Tail(done))

\* The calls that can fail with outcome io. A println! writes its line at
\* once. A print! only fills the buffer of stdout and writes when the
\* buffer is full: it can fail when text is waiting there already, left by
\* flushes that failed (how much waits is not counted: with text waiting, a
\* print! may be the one that finds the buffer full). A text longer than the
\* buffer is written at once as well; no line within MaxStored is that long.
FailPoints(calls, io) ==
    {k \in 1..Len(calls) :
        /\ calls[k].kind \in FailingKind(io)
        /\ calls[k].kind = "print" => Buffered(buffered, SubSeq(calls, 1, k - 1))}

\* Is output waiting for a flush after the calls made, when it was (before)
\* or was not before them: no flush was called and output was waiting or
\* has been produced, or calls that produce output follow the last flush.
Pending(before, made) ==
    LET flushes == {i \in 1..Len(made) : made[i].kind = "flush"}
        last == IF flushes = {} THEN 0 ELSE CHOOSE i \in flushes : \A j \in flushes : j <= i
    IN  (last = 0 /\ (before \/ made # <<>>)) \/ (last > 0 /\ last < Len(made))

\* println! writes its pieces one by one, and what ends with a newline goes
\* out at once: the pieces up to the first newline, when the call fails
\* after they were written.
PrintLineHead(call) ==
    LET nl == CHOOSE i \in 1..Len(call.toks) :
                  /\ call.toks[i].t = "nl"
                  /\ \A j \in 1..(i - 1) : call.toks[j].t # "nl"
    IN  [call EXCEPT !.toks = SubSeq(call.toks, 1, nl)]

\* Does a println! that failed after its head was written leave text in the
\* buffer of stdout ? The text after the head waits there for the newline
\* that ends the call.
PrintLineKept(call) ==
    \E i \in (Len(PrintLineHead(call).toks) + 1)..Len(call.toks) :
        call.toks[i].t = "text" /\ call.toks[i].s # <<>>

\* The calls made when the arm's calls end as io: all of them, or those
\* before the one that failed (the arm returns or unwinds there), with
\* the head of a println! that failed after writing it.
Emit(calls, io) ==
    IF io = "ok"
    THEN /\ out' = calls
         /\ unflushed' = Pending(unflushed, calls)
         /\ buffered' = Buffered(buffered, calls)
    ELSE \E k \in FailPoints(calls, io) :
            \/ /\ out' = SubSeq(calls, 1, k - 1)
               /\ unflushed' = Pending(unflushed, SubSeq(calls, 1,
                                   IF calls[k].kind = "flush" THEN k ELSE k - 1))
               /\ buffered' = Buffered(buffered, SubSeq(calls, 1, k - 1))
            \/ /\ calls[k].kind = "println"
               /\ out' = SubSeq(calls, 1, k - 1) \o <<PrintLineHead(calls[k])>>
               /\ unflushed' = TRUE
               /\ buffered' = PrintLineKept(calls[k])

\* An iteration, or a call, that makes no output call.
NoOutput == out' = <<>> /\ unflushed' = unflushed /\ buffered' = buffered

\* ---------------------------------------------------------------- control
\* The loop goes on to its next iteration.
Continue ==
    /\ pc' = pc
    /\ result' = result
    /\ cause' = cause
    /\ term' = term
    /\ program' = program
    /\ UNCHANGED hooks

\* The function returns r, or unwinds when r is a panic. In main the
\* TermManager is a local and is dropped on the way out; in get_line it
\* belongs to the Repl and lives on.
Return(why, r) ==
    /\ pc' = "exited"
    /\ cause' = why
    /\ result' = r
    /\ \E applied \in Tcsetattr :
          term' = IF program = "main" THEN TermDrop(term, applied) ELSE term
    /\ program' = program
    /\ UNCHANGED hooks

\* The value returned after a failed write or flush: Err(()) in main,
\* Err(Error::IoWrite) or Err(Error::IoFlush) in get_line.
IoErr(io) ==
    IF program = "main" THEN "Err"
    ELSE IF io = "write_err" THEN "IoWrite" ELSE "IoFlush"

\* eprintln!(..) followed by a return of v: the function returns v, or
\* eprintln! panics because stderr cannot be written.
AfterEprintln(v) == {v, "panic"}

\* The end of an arm whose output calls had outcome io: the next
\* iteration, the panic of print! or println!, or eprintln! and the return
\* of the error.
Finish(calls, io) ==
    /\ Emit(calls, io)
    /\ CASE io = "ok" -> Continue
         [] io = "print_err" -> Return(io, "panic")
         [] OTHER -> \E r \in AfterEprintln(IoErr(io)) : Return(io, r)

\* The value returned after the read failed: main breaks out of the loop to
\* its final Ok(()), get_line returns Err(Error::IoFlush).
ReadErr == IF program = "main" THEN "Ok" ELSE "IoFlush"

\* ---------------------------------------------------------------- startup
\* main before its loop: flush, print!("{}", PROMPT), flush.
StartCalls == <<FlushCall, PrintCall(<<Text(Prompt)>>), FlushCall>>

\* TermManager::new fails (tcgetattr): nothing was changed, nothing to drop.
StartInitFail ==
    /\ pc = "start"
    /\ pc' = "exited"
    /\ cause' = "init"
    /\ result' \in (IF program = "main" THEN AfterEprintln("Err") ELSE {"InitFail"})
    /\ UNCHANGED <<program, term, edit, input_state, escape_buffer, last_read, action, hooks,
                   out, unflushed, buffered>>

\* main: one of the two flushes before the loop fails.
StartFlushFail ==
    /\ pc = "start"
    /\ program = "main"
    /\ pc' = "exited"
    /\ cause' = "flush_err"
    /\ result' = "Err"
    /\ \E applied, restored \in Tcsetattr :
          term' = TermDrop(TermInit(term, applied), restored)
    /\ Emit(StartCalls, "flush_err")
    /\ UNCHANGED <<program, edit, input_state, escape_buffer, last_read, action, hooks>>

\* main: TermManager::new returned Ok, the prompt is out and the loop
\* starts.
StartOk ==
    /\ pc = "start"
    /\ program = "main"
    /\ pc' = "loop"
    /\ \E applied \in Tcsetattr : term' = TermInit(term, applied)
    /\ Emit(StartCalls, "ok")
    /\ UNCHANGED <<program, result, cause, edit, input_state, escape_buffer, last_read, action, hooks>>

\* Repl::new returns the Repl to its caller: TermManager::new returned Ok
\* and the fields are those of an empty editor.
ReplNew ==
    /\ pc = "start"
    /\ program = "repl"
    /\ pc' = "ready"
    /\ \E applied \in Tcsetattr : term' = TermInit(term, applied)
    /\ NoOutput
    /\ UNCHANGED <<program, result, cause, edit, input_state, escape_buffer, last_read, action, hooks>>

\* The Repl goes out of scope, before get_line was ever called or after it
\* returned or unwound: its TermManager is dropped.
DropRepl ==
    /\ pc \in {"ready", "exited"}
    /\ program = "repl"
    /\ cause # "init"
    /\ pc' = "dropped"
    /\ \E applied \in Tcsetattr : term' = TermDrop(term, applied)
    /\ UNCHANGED <<program, result, cause, edit, input_state, escape_buffer, last_read, action, hooks,
                   out, unflushed, buffered>>

\* get_line is called on the Repl, for the first time or again after it
\* returned a value or after its panic was caught: the loop goes on from
\* the fields as they are.
GetLine ==
    /\ pc \in {"ready", "exited"}
    /\ program = "repl"
    /\ result # "InitFail"
    /\ pc' = "loop"
    /\ result' = "none"
    /\ cause' = "none"
    /\ action' = "None"
    /\ last_read' = "none"
    /\ NoOutput
    /\ UNCHANGED <<program, term, edit, input_state, escape_buffer, hooks>>

\* tmanager.read fails.
ReadError ==
    /\ pc = "loop"
    /\ \E r \in AfterEprintln(ReadErr) : Return("read_err", r)
    /\ action' = "None"
    /\ NoOutput
    /\ UNCHANGED <<edit, input_state, escape_buffer, last_read>>

\* ---------------------------------------------------------------- decoder
\* InputState::Escape, byte '[': the sequence goes on.
EscapeBracketArm(c) ==
    /\ input_state = "Escape"
    /\ c = LBRACKET
    /\ escape_buffer' = Append(escape_buffer, c)
    /\ input_state' = "BracketedEscape"
    /\ action' = "None"
    /\ UNCHANGED edit
    /\ NoOutput
    /\ Continue

\* InputState::Escape, any other byte: the sequence is dropped.
EscapeOtherArm(c) ==
    /\ input_state = "Escape"
    /\ c # LBRACKET
    /\ input_state' = "Normal"
    /\ escape_buffer' = <<>>
    /\ action' = "None"
    /\ UNCHANGED edit
    /\ NoOutput
    /\ Continue

\* The end of a recognized arrow arm: when the output failed the function
\* has returned, or unwound, before the decoder was reset.
ArrowEnd(c, calls, io) ==
    /\ input_state' = IF io = "ok" THEN "Normal" ELSE input_state
    /\ escape_buffer' = IF io = "ok" THEN <<>> ELSE Append(escape_buffer, c)
    /\ Finish(calls, io)

\* The guard of the Up arm.
UpGuard == Len(lines) > 0 /\ lines_pos > 0

\* The guard of the Down arm.
DownGuard == Len(lines) > 0 /\ (lines_pos + 1) < Len(lines)

\* The guard of the Right arm.
RightGuard == cursor_pos < CharCount(line)

\* The guard of the Left arm.
LeftGuard == cursor_pos > 0

\* lines[i] of the Vec, i counted from 0.
Entry(i) == lines[i + 1]

\* An Up arm that steps the browsing index down whenever there is history,
\* also from 0.
HistoryPrevArmUnderflow(c, io) ==
    /\ input_state = "BracketedEscape"
    /\ c = KEY_A
    /\ action' = "HistoryPrev"
    /\ lines' = lines
    /\ IF Len(lines) > 0
       THEN /\ io \in {"ok", "flush_err", "print_err"}
            /\ line' = IF lines_pos > 0 THEN Entry(lines_pos - 1) ELSE line
            /\ lines_pos' = lines_pos - 1
            /\ cursor_pos' = IF io = "ok" THEN 0 ELSE cursor_pos
            /\ ArrowEnd(c, RedrawCalls(IF lines_pos > 0 THEN Entry(lines_pos - 1) ELSE line), io)
       ELSE /\ io = "ok"
            /\ UNCHANGED <<line, lines_pos, cursor_pos>>
            /\ ArrowEnd(c, <<>>, io)

\* InputState::BracketedEscape, byte 'A' (Up).
HistoryPrevArm(c, io) ==
    /\ input_state = "BracketedEscape"
    /\ c = KEY_A
    /\ action' = "HistoryPrev"
    /\ lines' = lines
    /\ IF UpGuard
       THEN /\ io \in {"ok", "flush_err", "print_err"}
            /\ line' = Entry(lines_pos - 1)
            /\ lines_pos' = lines_pos - 1
            /\ cursor_pos' = IF io = "ok" THEN 0 ELSE cursor_pos
            /\ ArrowEnd(c, RedrawCalls(Entry(lines_pos - 1)), io)
       ELSE /\ io = "ok"
            /\ UNCHANGED <<line, lines_pos, cursor_pos>>
            /\ ArrowEnd(c, <<>>, io)

\* InputState::BracketedEscape, byte 'B' (Down).
HistoryNextArm(c, io) ==
    /\ input_state = "BracketedEscape"
    /\ c = KEY_B
    /\ action' = "HistoryNext"
    /\ lines' = lines
    /\ IF DownGuard
       THEN /\ io \in {"ok", "flush_err", "print_err"}
            /\ lines_pos' = lines_pos + 1
            /\ line' = Entry(lines_pos + 1)
            /\ cursor_pos' = IF io = "ok" THEN 0 ELSE cursor_pos
            /\ ArrowEnd(c, RedrawCalls(Entry(lines_pos + 1)), io)
       ELSE /\ io = "ok"
            /\ UNCHANGED <<line, lines_pos, cursor_pos>>
            /\ ArrowEnd(c, <<>>, io)

\* InputState::BracketedEscape, byte 'C' (Right).
CursorRightArm(c, io) ==
    /\ input_state = "BracketedEscape"
    /\ c = KEY_C
    /\ action' = "CursorRight"
    /\ UNCHANGED <<line, lines, lines_pos>>
    /\ IF RightGuard
       THEN /\ io \in IoOutcomes
            /\ cursor_pos' = IF io = "ok" THEN cursor_pos + 1 ELSE cursor_pos
            /\ ArrowEnd(c, CursorRightCalls, io)
       ELSE /\ io = "ok"
            /\ cursor_pos' = cursor_pos
            /\ ArrowEnd(c, <<>>, io)

\* InputState::BracketedEscape, byte 'D' (Left).
CursorLeftArm(c, io) ==
    /\ input_state = "BracketedEscape"
    /\ c = KEY_D
    /\ action' = "CursorLeft"
    /\ UNCHANGED <<line, lines, lines_pos>>
    /\ IF LeftGuard
       THEN /\ io \in IoOutcomes
            /\ cursor_pos' = IF io = "ok" THEN cursor_pos - 1 ELSE cursor_pos
            /\ ArrowEnd(c, CursorLeftCalls, io)
       ELSE /\ io = "ok"
            /\ cursor_pos' = cursor_pos
            /\ ArrowEnd(c, <<>>, io)

\* InputState::BracketedEscape, any other byte: it is pushed, nothing else.
BracketOtherArm(c) ==
    /\ input_state = "BracketedEscape"
    /\ c \notin {KEY_A, KEY_B, KEY_C, KEY_D}
    /\ escape_buffer' = Append(escape_buffer, c)
    /\ input_state' = input_state
    /\ action' = "None"
    /\ UNCHANGED edit
    /\ NoOutput
    /\ Continue

\* ---------------------------------------------------------------- editor
\* InputState::Normal, byte ESC.
EscapeStartArm(c) ==
    /\ input_state = "Normal"
    /\ c = ESC
    /\ input_state' = "Escape"
    /\ escape_buffer' = <<>>
    /\ action' = "None"
    /\ UNCHANGED edit
    /\ NoOutput
    /\ Continue

\* A terminate arm that pushes the line under edit before it breaks.
TerminateArmCommits(c) ==
    /\ input_state = "Normal"
    /\ c \in {CH_q, ETX}
    /\ action' = "Terminate"
    /\ lines' = Append(lines, line)
    /\ UNCHANGED <<line, cursor_pos, lines_pos, input_state, escape_buffer>>
    /\ pc' = "exited"
    /\ cause' = "terminate"
    /\ result' = "Ok"
    /\ \E applied \in Tcsetattr :
          term' = IF program = "main" THEN TermDrop(term, applied) ELSE term
    /\ program' = program
    /\ UNCHANGED hooks
    /\ NoOutput

\* InputState::Normal, byte 'q' or ETX: break. main falls to Ok(()),
\* get_line to Ok(self.line.clone()).
TerminateArm(c) ==
    /\ input_state = "Normal"
    /\ c \in {CH_q, ETX}
    /\ action' = "Terminate"
    /\ UNCHANGED <<edit, input_state, escape_buffer>>
    /\ NoOutput
    /\ Return("terminate", "Ok")

\* lines.push(line.clone())
CommittedLines(ls, l) == Append(ls, l)

\* A commit arm that, while an older entry is browsed, stores the line in
\* the place of the entry below it instead of pushing it.
CommitArmReplaces(c, io) ==
    /\ input_state = "Normal"
    /\ c \in {LF, CR}
    /\ io \in {"ok", "flush_err"}
    /\ action' = "Commit"
    /\ lines' = IF lines_pos < Len(lines)
                THEN [lines EXCEPT ![lines_pos + 1] = line]
                ELSE CommittedLines(lines, line)
    /\ lines_pos' = lines_pos + 1
    /\ line' = <<>>
    /\ cursor_pos' = 0
    /\ UNCHANGED <<input_state, escape_buffer>>
    /\ Finish(CommitCalls(line), io)

\* InputState::Normal, byte LF or CR. println! comes first and panics when
\* it cannot write: nothing has been pushed then.
CommitArm(c, io) ==
    /\ input_state = "Normal"
    /\ c \in {LF, CR}
    /\ io \in {"ok", "flush_err", "print_err"}
    /\ action' = "Commit"
    /\ UNCHANGED <<input_state, escape_buffer>>
    /\ IF io = "print_err"
       THEN /\ UNCHANGED edit
            /\ Emit(CommitCalls(line), io)
            /\ Return(io, "panic")
       ELSE /\ lines' = CommittedLines(lines, line)
            /\ lines_pos' = lines_pos + 1
            /\ line' = <<>>
            /\ cursor_pos' = 0
            /\ Finish(CommitCalls(line), io)

\* A backspace arm that writes its cursor-left also when the cursor is at
\* the start of the line.
DeleteBackwardArmMovesAtStart(c, io) ==
    /\ input_state = "Normal"
    /\ c \in {BS, DEL}
    /\ action' = "DeleteBackward"
    /\ UNCHANGED <<lines, lines_pos, input_state, escape_buffer>>
    /\ io \in IoOutcomes
    /\ IF cursor_pos > 0
       THEN /\ line' = RemovedLine(line, cursor_pos)
            /\ cursor_pos' = cursor_pos - 1
            /\ Finish(DeleteCalls(RemovedLine(line, cursor_pos), cursor_pos - 1,
                                  RemoveByteIdx(line, cursor_pos)), io)
       ELSE /\ UNCHANGED <<line, cursor_pos>>
            /\ Finish(CursorLeftCalls, io)

\* InputState::Normal, byte BS or DEL.
DeleteBackwardArm(c, io) ==
    /\ input_state = "Normal"
    /\ c \in {BS, DEL}
    /\ action' = "DeleteBackward"
    /\ UNCHANGED <<lines, lines_pos, input_state, escape_buffer>>
    /\ IF cursor_pos > 0
       THEN LET byte_idx_to_remove == RemoveByteIdx(line, cursor_pos)
            IN  IF byte_idx_to_remove < Len(line)
                THEN /\ io \in IoOutcomes
                     /\ line' = RemovedLine(line, cursor_pos)
                     /\ cursor_pos' = cursor_pos - 1
                     /\ Finish(DeleteCalls(RemovedLine(line, cursor_pos), cursor_pos - 1,
                                           byte_idx_to_remove), io)
                ELSE \* String::remove panics
                     /\ io = "ok"
                     /\ UNCHANGED <<line, cursor_pos>>
                     /\ NoOutput
                     /\ Return("panic", "panic")
       ELSE /\ io = "ok"
            /\ UNCHANGED <<line, cursor_pos>>
            /\ NoOutput
            /\ Continue

\* InputState::Normal, any other byte that passes the test of the insert
\* arm. At the end of the line print! comes before the push: when it
\* panics the line is as it was.
InsertCharArm(c, io) ==
    /\ input_state = "Normal"
    /\ c \notin {ESC, CH_q, ETX, LF, CR, BS, DEL}
    /\ IsInsertable(c)
    /\ action' = "InsertChar"
    /\ UNCHANGED <<lines, lines_pos, input_state, escape_buffer>>
    /\ IF cursor_pos = CharCount(line)
       THEN /\ io \in {"ok", "flush_err", "print_err"}
            /\ line' = IF io = "print_err" THEN line ELSE InsertedLine(line, cursor_pos, c)
            /\ cursor_pos' = IF io = "print_err" THEN cursor_pos ELSE cursor_pos + 1
       ELSE /\ io \in {"ok", "write_err", "flush_err"}
            /\ line' = InsertedLine(line, cursor_pos, c)
            /\ cursor_pos' = IF io = "write_err" THEN cursor_pos ELSE cursor_pos + 1
    /\ Finish(InsertCalls(line, cursor_pos, c), io)

\* InputState::Normal, any other byte that does not pass it.
IgnoreArm(c) ==
    /\ input_state = "Normal"
    /\ c \notin {ESC, CH_q, ETX, LF, CR, BS, DEL}
    /\ ~IsInsertable(c)
    /\ action' = "None"
    /\ UNCHANGED <<edit, input_state, escape_buffer>>
    /\ NoOutput
    /\ Continue

\* The line and the cursor after byte c was handled in the Normal state
\* with no output failing: backward deletion, insertion, or nothing for a
\* byte that is neither deleted on nor insertable.
AfterByte(st, c) ==
    IF c \in {BS, DEL}
    THEN IF st.p > 0 /\ RemoveByteIdx(st.l, st.p) < Len(st.l)
         THEN [l |-> RemovedLine(st.l, st.p), p |-> st.p - 1]
         ELSE st
    ELSE IF IsInsertable(c)
         THEN [l |-> InsertedLine(st.l, st.p, c), p |-> st.p + 1]
         ELSE st

\* ---------------------------------------------------------------- the loop
\* One iteration of the loop on byte c, the outputs of its arm ending as io.
HandleByte(c, io) ==
    \/ EscapeBracketArm(c) /\ io = "ok"
    \/ EscapeOtherArm(c) /\ io = "ok"
    \/ HistoryPrevArm(c, io)
    \/ HistoryNextArm(c, io)
    \/ CursorRightArm(c, io)
    \/ CursorLeftArm(c, io)
    \/ BracketOtherArm(c) /\ io = "ok"
    \/ EscapeStartArm(c) /\ io = "ok"
    \/ TerminateArm(c) /\ io = "ok"
    \/ CommitArm(c, io)
    \/ DeleteBackwardArm(c, io)
    \/ InsertCharArm(c, io)
    \/ IgnoreArm(c) /\ io = "ok"

EscapeBracket ==
    pc = "loop" /\ \E r \in Reads : EscapeBracketArm(r[2]) /\ last_read' = r[1]

EscapeOther ==
    pc = "loop" /\ \E r \in Reads : EscapeOtherArm(r[2]) /\ last_read' = r[1]

HistoryPrev ==
    pc = "loop" /\ \E r \in Reads, io \in Outcomes : HistoryPrevArm(r[2], io) /\ last_read' = r[1]

HistoryNext ==
    pc = "loop" /\ \E r \in Reads, io \in Outcomes : HistoryNextArm(r[2], io) /\ last_read' = r[1]

CursorRight ==
    pc = "loop" /\ \E r \in Reads, io \in Outcomes : CursorRightArm(r[2], io) /\ last_read' = r[1]

CursorLeft ==
    pc = "loop" /\ \E r \in Reads, io \in Outcomes : CursorLeftArm(r[2], io) /\ last_read' = r[1]

BracketOther ==
    pc = "loop" /\ \E r \in Reads : BracketOtherArm(r[2]) /\ last_read' = r[1]

EscapeStart ==
    pc = "loop" /\ \E r \in Reads : EscapeStartArm(r[2]) /\ last_read' = r[1]

Terminate ==
    pc = "loop" /\ \E r \in Reads : TerminateArm(r[2]) /\ last_read' = r[1]

Commit ==
    pc = "loop" /\ \E r \in Reads, io \in Outcomes : CommitArm(r[2], io) /\ last_read' = r[1]

DeleteBackward ==
    pc = "loop" /\ \E r \in Reads, io \in Outcomes : DeleteBackwardArm(r[2], io) /\ last_read' = r[1]

InsertChar ==
    pc = "loop" /\ \E r \in Reads, io \in Outcomes : InsertCharArm(r[2], io) /\ last_read' = r[1]

Ignore ==
    pc = "loop" /\ \E r \in Reads : IgnoreArm(r[2]) /\ last_read' = r[1]

Next ==
    \/ StartInitFail
    \/ StartFlushFail
    \/ StartOk
    \/ ReplNew
    \/ DropRepl
    \/ GetLine
    \/ ReadError
    \/ EscapeBracket
    \/ EscapeOther
    \/ HistoryPrev
    \/ HistoryNext
    \/ CursorRight
    \/ CursorLeft
    \/ BracketOther
    \/ EscapeStart
    \/ Terminate
    \/ Commit
    \/ DeleteBackward
    \/ InsertChar
    \/ Ignore

Spec == Init /\ [][Next]_vars

\* ================================================================ claims

\* The line with character c put at character index p.
LineWith(s, p, c) == SubSeq(s, 1, p) \o <<c>> \o SubSeq(s, p + 1, Len(s))

\* The line without the character at character index p.
LineWithout(s, p) == SubSeq(s, 1, p) \o SubSeq(s, p + 2, Len(s))

\* The bytes the insert arm accepts among those the input delivers.
InsertableBytes == {c \in NormalBytes \ {ESC, CH_q, ETX, LF, CR, BS, DEL} : IsInsertable(c)}

\* A byte was handled to the end of its arm: no write or flush failed.
Handled == pc = "loop" /\ pc' = "loop"

\* C1: after every byte the loop has processed (insertion, backward deletion,
\* cursor movement, commit, history navigation), 0 <= cursor_pos <=
\* character_length(line). An arm cut short by a failed write or flush has
\* returned from the function and is not covered; the bytes handled by a
\* later call of get_line on the same Repl are.
C1_CursorInLine ==
    cause \notin {"write_err", "flush_err"} =>
        (0 <= cursor_pos /\ cursor_pos <= CharCount(line))

\* C2: inserting an insertable character c with the cursor at character index
\* p of line L gives L[0..p) + c + L[p..) and cursor_pos = p + 1, for every
\* 0 <= p <= length(L).
C2_InsertAtCursor ==
    [][\A c \in InsertableBytes :
          (Handled /\ InsertCharArm(c, "ok")) =>
              (line' = LineWith(line, cursor_pos, c) /\ cursor_pos' = cursor_pos + 1)]_vars

\* C3: inserting c at the cursor and then deleting backward once gives back the
\* line and the cursor position, for every line, every cursor position in it
\* and every insertable character.
C3_InsertDeleteRoundTrip ==
    (pc = "loop" /\ input_state = "Normal" /\ cursor_pos <= CharCount(line)) =>
        \A c \in InsertableBytes :
            RemovedLine(InsertedLine(line, cursor_pos, c), cursor_pos + 1) = line

\* C4: a backward delete with cursor_pos = p > 0 removes exactly the character
\* at index p - 1, which is there, keeps the others in order, and sets
\* cursor_pos to p - 1.
C4_DeleteBeforeCursor ==
    [][(pc = "loop" /\ input_state = "Normal" /\ action' = "DeleteBackward"
            /\ cursor_pos > 0) =>
          /\ cursor_pos <= CharCount(line)
          /\ line' = LineWithout(line, cursor_pos - 1)
          /\ cursor_pos' = cursor_pos - 1]_vars

\* C5 as stated: ETX received in any decoder state ends the loop, and the line
\* under edit is not appended to history.
C5_EtxAnyState ==
    [][(pc = "loop" /\ \E io \in IoOutcomes : HandleByte(ETX, io)) =>
          (pc' = "exited" /\ lines' = lines)]_vars

\* C5 amended: ETX received in decoder state Normal ends the loop at once and
\* the line under edit is not appended to history; received in Escape or
\* BracketedEscape it is consumed as a byte of the escape sequence and the
\* loop goes on.
C5_EtxNormal ==
    [][(pc = "loop" /\ \E io \in IoOutcomes : HandleByte(ETX, io)) =>
          IF input_state = "Normal"
          THEN pc' = "exited" /\ cause' = "terminate" /\ UNCHANGED edit
          ELSE pc' = "loop" /\ UNCHANGED edit]_vars

\* C5 witness: the loop was terminated with a line under edit that is in no
\* history entry.
C5_Witness ==
    /\ pc = "exited"
    /\ cause = "terminate"
    /\ action = "Terminate"
    /\ Len(line) > 0
    /\ \A i \in 1..Len(lines) : lines[i] # line
    /\ Len(lines) > 0

\* C6: in BracketedEscape a byte other than 'A', 'B', 'C', 'D' produces no
\* edit action and returns the decoder to Normal.
C6_BracketOtherResets ==
    [][\A c \in (BracketBytes \cup {NUL}) \ {KEY_A, KEY_B, KEY_C, KEY_D} :
          (pc = "loop" /\ BracketOtherArm(c)) =>
              (input_state' = "Normal" /\ action' = "None" /\ UNCHANGED edit)]_vars

\* C7: when a read succeeds with zero bytes (end of input) the loop ends.
C7_EofEndsLoop == last_read = "eof" => pc # "loop"

\* C8: a failed read ends the loop and is returned as a failure of the read
\* kind: Err from main, Error::IoRead from get_line.
C8_ReadFailureSurfaced ==
    cause = "read_err" =>
        (pc # "loop" /\ result = (IF program = "main" THEN "Err" ELSE "IoRead"))

\* C9: main acquires raw mode once, before the first read, and the saved
\* attributes are reapplied exactly once on every way out of the loop:
\* terminate byte, read failure, failed write or flush. (The TermManager of a
\* Repl is restored when the Repl is dropped.)
C9_RestoredOnce ==
    /\ term.acquired <= 1
    /\ term.restored <= term.acquired
    /\ pc = "loop" => (term.acquired = 1 /\ term.restored = 0 /\ term.raw)
    /\ (program = "main" /\ pc = "exited" /\ cause # "init") =>
           (term.acquired = 1 /\ term.restored = 1 /\ ~term.raw)
    /\ pc = "dropped" => (term.restored = 1 /\ ~term.raw)
    /\ cause = "init" => (term.acquired = 0 /\ term.restored = 0)

\* C10: Up takes effect iff lines_pos > 0 and Down iff lines_pos + 1 <
\* length(lines); when effective, lines_pos moves by one and the line becomes
\* lines[lines_pos] with cursor_pos = 0; otherwise line, cursor_pos, lines_pos
\* and lines are unchanged. This is said of every Up and Down the loop
\* handles, whatever becomes of the output of the arm.
C10_HistoryNavigation ==
    [][(pc = "loop" /\ input_state = "BracketedEscape") =>
          /\ action' = "HistoryPrev" =>
                IF lines_pos > 0
                THEN /\ lines_pos' = lines_pos - 1
                     /\ lines_pos' < Len(lines)
                     /\ line' = lines[lines_pos' + 1]
                     /\ cursor_pos' = 0
                     /\ lines' = lines
                ELSE UNCHANGED edit
          /\ action' = "HistoryNext" =>
                IF lines_pos + 1 < Len(lines)
                THEN /\ lines_pos' = lines_pos + 1
                     /\ line' = lines[lines_pos' + 1]
                     /\ cursor_pos' = 0
                     /\ lines' = lines
                ELSE UNCHANGED edit]_vars

\* C11: the history is append-only. In every step the history before is a
\* prefix of the history after, so no entry is changed, reordered or removed;
\* and the history changes only in a step of the commit arm, which makes it
\* longer by exactly one entry.
C11_HistoryAppendOnly ==
    [][/\ Len(lines') >= Len(lines)
       /\ SubSeq(lines', 1, Len(lines)) = lines
       /\ lines' # lines =>
            /\ pc = "loop"
            /\ action' = "Commit"
            /\ Len(lines') = Len(lines) + 1]_vars

\* A commit made while an older entry was browsed: one entry was there, it
\* was recalled, and a second, different one was pushed after it.
C11_Witness ==
    /\ action = "Commit"
    /\ Len(lines) = 2
    /\ lines_pos = 1
    /\ lines[1] # lines[2]

\* C12: every Enter (CR or LF) handled in the Normal state, the line empty or
\* not, appends the text of the line as the new last history entry and
\* leaves the line empty with cursor_pos = 0.
C12_EnterCommits ==
    [][(pc = "loop" /\ action' = "Commit") =>
           /\ input_state = "Normal"
           /\ lines' = Append(lines, line)
           /\ line' = <<>>
           /\ cursor_pos' = 0]_vars

\* C13: the browsing index stays in range: 0 <= lines_pos <= Len(lines).
C13_BrowseInRange == 0 <= lines_pos /\ lines_pos <= Len(lines)

\* Up was pressed at the oldest entry, where it is refused: the index is 0
\* with history present.
C13_Witness ==
    /\ pc = "loop"
    /\ action = "HistoryPrev"
    /\ Len(lines) = 2
    /\ lines_pos = 0
    /\ line # lines[1]

\* A line-completeness predicate a caller may give to Repl::new (a
\* LineEndFunc): a line is complete when it is not empty.
SampleLineEnd(s) == s # <<>>

\* C14: in the Repl every commit calls the injected process_line exactly
\* once, with the committed text, before the next byte is read, and no line
\* is appended to the history without that call: the texts process_line was
\* called with are the history.
C14_ProcessorCalled == program = "repl" => processed = lines

\* C15: in the Repl, when a line-completeness predicate was supplied, Enter
\* commits the line if and only if the predicate holds of it; when it does
\* not hold, Enter inserts a newline character into the line at the cursor
\* and appends nothing to the history. Without a predicate every Enter
\* commits.
C15_LineEndGatesCommit ==
    [][(pc = "loop" /\ program = "repl" /\ action' = "Commit") =>
           IF line_end = "Func" /\ ~SampleLineEnd(line)
           THEN /\ lines' = lines
                /\ line' = LineWith(line, cursor_pos, LF)
           ELSE /\ lines' = Append(lines, line)
                /\ line' = <<>>]_vars

\* ---------------------------------------------------------------- terminal
\* The terminal as one row of cells and a cursor column, one column per
\* character. col counts from 0 at the left edge, the prompt included.
\* n cells holding a space.
Blanks(n) == [i \in 1..n |-> 32]

\* A character is written at the cursor, which moves one column right.
PutChar(scr, ch) ==
    [row |-> IF scr.col < Len(scr.row)
             THEN [scr.row EXCEPT ![scr.col + 1] = ch]
             ELSE scr.row \o Blanks(scr.col - Len(scr.row)) \o <<ch>>,
     col |-> scr.col + 1]

RECURSIVE PutText(_, _)
PutText(scr, s) ==
    IF s = <<>> THEN scr ELSE PutText(PutChar(scr, Head(s)), Tail(s))

\* The columns a cursor movement ESC[<n>D or ESC[<n>C moves by: a parameter
\* of 0 stands for the default, 1 (ECMA-48 CUB/CUF, as VT100 and xterm do).
Columns(n) == IF n = 0 THEN 1 ELSE n

ApplyTok(scr, tok) ==
    CASE tok.t = "text" -> PutText(scr, tok.s)
      [] tok.t = "cr" -> [scr EXCEPT !.col = 0]
      [] tok.t = "nl" -> [row |-> <<>>, col |-> scr.col]
      [] tok.t = "erase" -> [scr EXCEPT !.row = SubSeq(scr.row, 1, Min(scr.col, Len(scr.row)))]
      [] tok.t = "left" ->
            [scr EXCEPT !.col = IF scr.col > Columns(tok.n) THEN scr.col - Columns(tok.n) ELSE 0]
      [] tok.t = "right" -> [scr EXCEPT !.col = scr.col + Columns(tok.n)]

RECURSIVE ApplyToks(_, _)
ApplyToks(scr, toks) ==
    IF toks = <<>> THEN scr ELSE ApplyToks(ApplyTok(scr, Head(toks)), Tail(toks))

\* The screen after the terminal received the output of calls.
RECURSIVE Render(_, _)
Render(scr, calls) ==
    IF calls = <<>> THEN scr
    ELSE Render(ApplyToks(scr, Head(calls).toks), Tail(calls))

\* The screen that agrees with line l and cursor p: the prompt and the line
\* are what is visible, the cursor is at text column p.
InSync(l, p) == [row |-> Prompt \o l, col |-> Len(Prompt) + p]

\* The actions C16 is about.
CursorEdits == {"InsertChar", "DeleteBackward", "CursorLeft", "CursorRight"}

\* C16: screen and line stay in agreement. If before an insertion, a
\* backward deletion or a left/right move the visible text after the prompt
\* is the line and the terminal cursor is at text column cursor_pos, then
\* after the output of the action the same holds of the new line and the new
\* cursor_pos.
C16_ScreenInSync ==
    [][(Handled /\ action' \in CursorEdits) =>
           Render(InSync(line, cursor_pos), out') = InSync(line', cursor_pos')]_vars

\* C17: after an Up or a Down that takes effect the line is drawn anew
\* (carriage return, prompt, recalled text, erase to end of line) and the
\* visible cursor of the terminal ends at column 0 of the text, in agreement
\* with cursor_pos = 0, whatever the length of the recalled line.
C17_RecallCursorAtStart ==
    [][(Handled /\ action' \in {"HistoryPrev", "HistoryNext"} /\ lines_pos' # lines_pos) =>
           /\ cursor_pos' = 0
           /\ Render(InSync(line, cursor_pos), out') = InSync(line', 0)]_vars

\* The two bytes of a character that UTF-8 encodes in two bytes (U+00E9).
TwoByteChar == <<195, 169>>

\* C18: the two bytes of a two-byte character followed by one backspace
\* insert one character and remove it again: from every line and cursor
\* position, the line after the three bytes is the line before them.
C18_TwoByteCharRoundTrip ==
    (pc = "loop" /\ input_state = "Normal") =>
        LET st0 == [l |-> line, p |-> cursor_pos]
            st1 == AfterByte(st0, TwoByteChar[1])
            st2 == AfterByte(st1, TwoByteChar[2])
            st3 == AfterByte(st2, BS)
        IN  st3.l = line /\ CharCount(st3.l) = CharCount(line)

\* C19: a backspace with cursor_pos = 0 is a no-op: the line, cursor_pos, the
\* history, the browsing index and the decoder state are unchanged, nothing
\* is written to the terminal, and the loop goes on.
C19_DeleteAtStartNoOp ==
    [][(pc = "loop" /\ input_state = "Normal" /\ action' = "DeleteBackward"
            /\ cursor_pos = 0) =>
           /\ UNCHANGED <<line, cursor_pos, lines, lines_pos, input_state, escape_buffer>>
           /\ out' = <<>>
           /\ pc' = "loop"]_vars

\* A backspace was handled with the cursor at the start of a non-empty line,
\* with history present: it has written nothing.
C19_Witness ==
    /\ pc = "loop"
    /\ action = "DeleteBackward"
    /\ out = <<>>
    /\ cursor_pos = 0
    /\ line # <<>>
    /\ Len(lines) > 0

\* C20: whenever the loop is about to read, no output is waiting for a
\* flush: after every output call made while a byte was handled a flush has
\* been called before the next read.
C20_FlushedBeforeRead == pc = "loop" => ~unflushed

\* The length of the tail of a recognized escape sequence: '[' and the
\* letter of the arrow key.
EscapeTail == <<LBRACKET, KEY_A>>

\* C21: the escape accumulator is bounded: it is empty whenever the decoder
\* state is Normal, and it never holds more bytes than the tail of a
\* recognized escape sequence (2), however many bytes follow ESC '['.
C21_AccumulatorBounded ==
    /\ input_state = "Normal" => escape_buffer = <<>>
    /\ Len(escape_buffer) <= Len(EscapeTail)

\* C22: immediately after any commit the browsing index is the length of
\* the history, so that the first Up after a commit recalls the line just
\* committed, also when the commit follows history navigation.
C22_CommitResetsBrowse ==
    [][(pc = "loop" /\ action' = "Commit") => lines_pos' = Len(lines')]_vars

\* The cursor movements among the calls: the tokens ESC[<n>D and ESC[<n>C.
Movements(calls) ==
    UNION {{calls[i].toks[j] :
                j \in {k \in 1..Len(calls[i].toks) :
                          calls[i].toks[k].t \in {"left", "right"}}} :
           i \in 1..Len(calls)}

\* C23: every cursor movement the editor writes, ESC[<n>C or ESC[<n>D, has
\* n >= 1; an insertion at position 0 of a non-empty line writes no
\* cursor-left of zero columns.
C23_MovesAtLeastOne == \A m \in Movements(out) : m.n >= 1

====
